---------------------------- MODULE Spec2Model ----------------------------
(*************************************************************************)
(* Model of chat_ui.py: the streaming generator generate_response, the   *)
(* chat relay user_input / bot_response and its event wiring, the        *)
(* transcript store export_chat_history / import_chat_history, and       *)
(* compare_models.                                                       *)
(*                                                                       *)
(* Text is a sequence of one-character strings, so that concatenation,   *)
(* prefix and strip() are computed and not assumed.                      *)
(*************************************************************************)
EXTENDS Integers, Sequences, FiniteSets, TLC

VARIABLES
    chatbot,      \* value of the gr.Chatbot component: the live conversation
    msg,          \* value of the gr.Textbox the user types into
    settings,     \* model_dropdown, temperature and max_tokens components
    relay,        \* per event listener: the send chain user_input -> bot_response
    crashed,      \* listeners whose bot_response ended by an uncaught exception
    sends,        \* number of send events so far (bounded)
    reads,        \* number of lines read from the server so far (bounded)
    received,     \* history: lines read from the stream by the current call
    yielded,      \* history: items yielded by the current call
    netlog,       \* history: network calls issued by the current call
    disk,         \* the files: path -> what is stored there
    storeOut,     \* what the last export or import returned
    cmp,          \* the running compare_models call and its arguments
    cmpOut,       \* comparison_result and comparison_status
    assembly,     \* a prompt assembly: its arguments and the prompt built
    tags,         \* the server's models, its last answer and what the listing returned
    before        \* history: the last event, and the live conversation and settings it found

relayVars == <<chatbot, msg, settings, relay, crashed, sends, reads>>
ghostVars == <<received, yielded, netlog>>
storeVars == <<disk, storeOut>>
cmpVars == <<cmp, cmpOut>>
sideVars == <<assembly, tags, before>>

-----------------------------------------------------------------------------
(* Bounds of the model *)

MaxLines == 2
MaxSends == 1
MaxUILines == 2
MaxUISends == 2
MaxTurns == 3
MaxModels == 3

-----------------------------------------------------------------------------
(* Program constants *)

DefaultTemperature == 7       \* 0.7, in tenths
DefaultMaxTokens == 2048

CURRENT_MODEL == "codellama:7b"

-----------------------------------------------------------------------------
(* Text.  An element of a text is a character, or stands for a run of
   ordinary characters (letters, digits of a name) that no step looks into. *)

Whitespace == {" ", "\n"}

IsPrefix(a, b) == Len(a) <= Len(b) /\ SubSeq(b, 1, Len(a)) = a

RECURSIVE LStrip(_)
LStrip(s) == IF s # <<>> /\ Head(s) \in Whitespace THEN LStrip(Tail(s)) ELSE s

RECURSIVE RStrip(_)
RStrip(s) ==
    IF s # <<>> /\ s[Len(s)] \in Whitespace
    THEN RStrip(SubSeq(s, 1, Len(s) - 1)) ELSE s

\* str.strip()
Strip(s) == RStrip(LStrip(s))

Last(s) == s[Len(s)]

Message(r, c) == [role |-> r, content |-> c]

-----------------------------------------------------------------------------
(* The inference server, seen from requests *)

\* outcomes of requests.get(".../api/tags", timeout=REQUEST_TIMEOUT)
ProbeOutcomes == {"200", "500", "Timeout", "ConnectionError"}

\* outcomes of requests.post(OLLAMA_API_URL, ..., stream=True, timeout=300)
PostOutcomes == {"200", "500", "Timeout", "ConnectionError", "RequestException"}

Frags == {<<"H", "e">>, <<"l", "l", "o">>}

Raw(k) == [kind |-> k, hasResp |-> FALSE, isStr |-> TRUE, resp |-> <<>>, done |-> "absent"]

Obj(h, s, r, d) == [kind |-> "object", hasResp |-> h, isStr |-> s, resp |-> r, done |-> d]

\* what response.iter_lines() can hand over: a line, the end of the stream,
\* or an exception raised by the transport
Lines ==
    {Raw("empty"), Raw("undecodable"), Raw("notjson"), Raw("nonobject")}
    \cup {Obj(TRUE, TRUE, f, d) : f \in Frags, d \in {"absent", "true"}}
    \cup {Obj(TRUE, FALSE, <<>>, "absent")}
    \cup {Obj(FALSE, TRUE, <<>>, d) : d \in {"absent", "true", "false"}}

StreamFaults == {Raw("Timeout"), Raw("ConnectionError"), Raw("RequestException")}

StreamEnd == Raw("eof")

StreamEvents == Lines \cup StreamFaults \cup {StreamEnd}

\* the events of the runs with two listeners
UIEvents == {Obj(TRUE, TRUE, <<"H", "e">>, "absent"), Obj(FALSE, TRUE, <<>>, "true"), StreamEnd}


-----------------------------------------------------------------------------
(* generate_response.  "[x]" stands for the error glyph that opens every
   error text. *)

ErrNotRunning == <<"[x]", " Error: Ollama is not running or the model is not available.">>
ErrHttp(status) == <<"[x]", " Error: HTTP ", status>>
ErrTimeout == <<"[x]", " Timeout: Model is taking too long to respond.">>
ErrConnect == <<"[x]", " Error connecting to Ollama: Please ensure Ollama is running.">>

ErrorTexts == {ErrNotRunning, ErrTimeout, ErrConnect} \cup {ErrHttp(o) : o \in PostOutcomes}

\* check_ollama_status: the probe's outcome turned into a boolean
check_ollama_status(outcome) == outcome = "200"

\* an assembly that also writes the assistant turns without content
RECURSIVE Conversation_KeepEmpty(_)
Conversation_KeepEmpty(history) ==
    IF history = <<>> THEN <<>>
    ELSE LET m == Head(history)
             line == IF m.role = "user"
                        THEN <<"User: ">> \o m.content \o <<"\n">>
                     ELSE <<"Assistant: ">> \o m.content \o <<"\n">>
         IN  line \o Conversation_KeepEmpty(Tail(history))

\* the prompt assembled from the history and the new message
RECURSIVE Conversation(_)
Conversation(history) ==
    IF history = <<>> THEN <<>>
    ELSE LET m == Head(history)
             line == IF m.role = "user"
                        THEN <<"User: ">> \o m.content \o <<"\n">>
                     ELSE IF m.role = "assistant" /\ m.content # <<>>
                        THEN <<"Assistant: ">> \o m.content \o <<"\n">>
                     ELSE <<>>
         IN  line \o Conversation(Tail(history))

BuildPrompt(history, message) ==
    Conversation(history) \o <<"User: ">> \o message \o <<"\nAssistant:">>

\* the generator object right after the call: nothing has run yet
NewGen(message, history, model, temp, max_tok) ==
    [pc |-> "probe", full_response |-> <<>>, yield |-> <<>>,
     message |-> message, history |-> history, model |-> model,
     temperature |-> temp, max_tokens |-> max_tok]

IdleGen == NewGen(<<>>, <<>>, "", DefaultTemperature, DefaultMaxTokens)

Ends(g, item) == [g EXCEPT !.pc = "done", !.yield = <<item>>]
Returns(g) == [g EXCEPT !.pc = "done", !.yield = <<>>]
Raises(g) == [g EXCEPT !.pc = "raised", !.yield = <<>>]
Continues(g) == [g EXCEPT !.yield = <<>>]

\* a generator that yields the error text and goes on to the POST
GenProbe_NoReturn(g, outcome) ==
    IF ~check_ollama_status(outcome)
    THEN [g EXCEPT !.pc = "post", !.yield = <<ErrNotRunning>>]
    ELSE [g EXCEPT !.pc = "post", !.yield = <<>>]

\* the health check at the head of the generator
GenProbe(g, outcome) ==
    IF ~check_ollama_status(outcome)
    THEN Ends(g, ErrNotRunning)
    ELSE [g EXCEPT !.pc = "post", !.yield = <<>>]

\* the body of the POST request
GenRequest(g) ==
    [model |-> g.model, prompt |-> BuildPrompt(g.history, g.message), stream |-> TRUE,
     options |-> [temperature |-> g.temperature, num_predict |-> g.max_tokens]]

\* requests.post and the status check, with the except clauses around them
GenPost(g, outcome) ==
    CASE outcome = "200" -> [g EXCEPT !.pc = "iter", !.full_response = <<>>, !.yield = <<>>]
      [] outcome = "Timeout" -> Ends(g, ErrTimeout)
      [] outcome = "ConnectionError" -> Ends(g, ErrConnect)
      [] outcome = "RequestException" -> Raises(g)
      [] OTHER -> Ends(g, ErrHttp(outcome))

\* a generator that yields the fragment instead of the text so far
Accumulate_Delta(full_response, fragment) == fragment

\* full_response += chunk['response']
Accumulate(full_response, fragment) == full_response \o fragment

\* a generator that starts the text afresh after every yield
GenChunk_Reset(g, chunk) ==
    IF chunk.hasResp
    THEN IF chunk.isStr
         THEN [g EXCEPT !.full_response = <<>>, !.yield = <<g.full_response \o chunk.resp>>]
         ELSE Raises(g)
    ELSE IF chunk.done = "true" THEN Returns(g) ELSE Continues(g)

\* the handling of one parsed chunk that is a JSON object
GenChunk(g, chunk) ==
    IF chunk.hasResp
    THEN IF chunk.isStr
         THEN LET full == Accumulate(g.full_response, chunk.resp)
              IN  [g EXCEPT !.full_response = full, !.yield = <<full>>]
         ELSE Raises(g)
    ELSE IF chunk.done = "true" THEN Returns(g) ELSE Continues(g)

\* one turn of `for line in response.iter_lines()`, with the except clauses
\* around it
GenLine(g, ev) ==
    CASE ev.kind = "eof" -> Returns(g)
      [] ev.kind = "Timeout" -> Ends(g, ErrTimeout)
      [] ev.kind = "ConnectionError" -> Ends(g, ErrConnect)
      [] ev.kind = "RequestException" -> Raises(g)
      [] ev.kind = "empty" -> Continues(g)
      [] ev.kind = "undecodable" -> Raises(g)
      [] ev.kind = "notjson" -> Continues(g)
      [] ev.kind = "nonobject" -> Raises(g)
      [] ev.kind = "object" -> GenChunk(g, ev)

-----------------------------------------------------------------------------
(* JSON: values, json.dump(..., indent=2) and json.load, character by
   character.  A value is a record of one shape whatever its type: the fields
   a type does not use stay empty. *)

JStr(text) == [t |-> "str", s |-> text, n |-> 0, a |-> <<>>, o |-> <<>>]
JInt(i) == [t |-> "int", s |-> <<>>, n |-> i, a |-> <<>>, o |-> <<>>]
\* a float, in tenths
JFloat(tenths) == [t |-> "float", s |-> <<>>, n |-> tenths, a |-> <<>>, o |-> <<>>]
JNull == [t |-> "null", s |-> <<>>, n |-> 0, a |-> <<>>, o |-> <<>>]
JArr(elems) == [t |-> "arr", s |-> <<>>, n |-> 0, a |-> elems, o |-> <<>>]
\* members: a sequence of [k |-> key text, v |-> value], in insertion order
JObj(members) == [t |-> "obj", s |-> <<>>, n |-> 0, a |-> <<>>, o |-> members]

Member(key, value) == [k |-> key, v |-> value]

DigitChars == <<"0", "1", "2", "3", "4", "5", "6", "7", "8", "9">>
IsDigit(c) == \E i \in 1..10 : DigitChars[i] = c
DigitVal(c) == (CHOOSE i \in 1..10 : DigitChars[i] = c) - 1

RECURSIVE Digits(_)
Digits(i) == IF i < 10 THEN <<DigitChars[i + 1]>> ELSE Digits(i \div 10) \o <<DigitChars[(i % 10) + 1]>>

RECURSIVE Spaces(_)
Spaces(k) == IF k = 0 THEN <<>> ELSE <<" ">> \o Spaces(k - 1)

\* the newline and indentation json.dump writes before an item at depth d
Indent(d) == <<"\n">> \o Spaces(2 * d)

RECURSIVE Escape(_)
Escape(text) ==
    IF text = <<>> THEN <<>>
    ELSE LET c == Head(text)
         IN  (CASE c = "\"" -> <<"\\", "\"">>
                [] c = "\\" -> <<"\\", "\\">>
                [] c = "\n" -> <<"\\", "n">>
                [] OTHER -> <<c>>) \o Escape(Tail(text))

Quote(text) == <<"\"">> \o Escape(text) \o <<"\"">>

RECURSIVE Dump(_, _)
RECURSIVE DumpElems(_, _)
RECURSIVE DumpMembers(_, _)

DumpElems(elems, d) ==
    IF elems = <<>> THEN <<>>
    ELSE Indent(d) \o Dump(Head(elems), d)
         \o (IF Len(elems) > 1 THEN <<",">> ELSE <<>>)
         \o DumpElems(Tail(elems), d)

DumpMembers(members, d) ==
    IF members = <<>> THEN <<>>
    ELSE Indent(d) \o Quote(Head(members).k) \o <<":", " ">> \o Dump(Head(members).v, d)
         \o (IF Len(members) > 1 THEN <<",">> ELSE <<>>)
         \o DumpMembers(Tail(members), d)

\* json.dump(value, f, indent=2): the text written for a value at depth d
Dump(v, d) ==
    CASE v.t = "str" -> Quote(v.s)
      [] v.t = "int" -> Digits(v.n)
      [] v.t = "float" -> Digits(v.n \div 10) \o <<".">> \o Digits(v.n % 10)
      [] v.t = "null" -> <<"n", "u", "l", "l">>
      [] v.t = "arr" ->
            IF v.a = <<>> THEN <<"[", "]">>
            ELSE <<"[">> \o DumpElems(v.a, d + 1) \o Indent(d) \o <<"]">>
      [] v.t = "obj" ->
            IF v.o = <<>> THEN <<"{", "}">>
            ELSE <<"{">> \o DumpMembers(v.o, d + 1) \o Indent(d) \o <<"}">>

json_dump(v) == Dump(v, 0)

\* the result of a parsing step: a value and the text left, or a failure
Parsed(v, rest) == [ok |-> TRUE, v |-> v, rest |-> rest]
ParseFail == [ok |-> FALSE, v |-> JNull, rest |-> <<>>]

RECURSIVE SkipWs(_)
SkipWs(cs) == IF cs # <<>> /\ Head(cs) \in {" ", "\n"} THEN SkipWs(Tail(cs)) ELSE cs

RECURSIVE ParseString(_, _)
ParseString(cs, acc) ==
    IF cs = <<>> THEN ParseFail
    ELSE LET c == Head(cs)
         IN  CASE c = "\"" -> Parsed(JStr(acc), Tail(cs))
               [] c = "\n" -> ParseFail
               [] c = "\\" ->
                     IF Len(cs) < 2 THEN ParseFail
                     ELSE LET e == cs[2]
                          IN  CASE e = "\"" -> ParseString(Tail(Tail(cs)), Append(acc, "\""))
                                [] e = "\\" -> ParseString(Tail(Tail(cs)), Append(acc, "\\"))
                                [] e = "n" -> ParseString(Tail(Tail(cs)), Append(acc, "\n"))
                                [] OTHER -> ParseFail
               [] OTHER -> ParseString(Tail(cs), Append(acc, c))

RECURSIVE ParseInt(_, _)
ParseInt(cs, acc) ==
    IF cs # <<>> /\ IsDigit(Head(cs))
    THEN ParseInt(Tail(cs), 10 * acc + DigitVal(Head(cs)))
    ELSE Parsed(JInt(acc), cs)

\* digits, then at most one fraction digit after a point
ParseNumber(cs) ==
    LET i == ParseInt(cs, 0)
    IN  IF i.rest # <<>> /\ Head(i.rest) = "."
        THEN IF Len(i.rest) >= 2 /\ IsDigit(i.rest[2])
                  /\ (Len(i.rest) = 2 \/ ~IsDigit(i.rest[3]))
             THEN Parsed(JFloat(10 * i.v.n + DigitVal(i.rest[2])), Tail(Tail(i.rest)))
             ELSE ParseFail
        ELSE i

RECURSIVE ParseValue(_)
RECURSIVE ParseElems(_, _)
RECURSIVE ParseMembers(_, _)

\* after "[" or ",": a value, then "," or "]"
ParseElems(cs, acc) ==
    LET r == ParseValue(cs)
        rest == SkipWs(r.rest)
    IN  IF ~r.ok \/ rest = <<>> THEN ParseFail
        ELSE CASE Head(rest) = "," -> ParseElems(Tail(rest), Append(acc, r.v))
               [] Head(rest) = "]" -> Parsed(JArr(Append(acc, r.v)), Tail(rest))
               [] OTHER -> ParseFail

\* after "{" or ",": a key, ":", a value, then "," or "}"
ParseMembers(cs, acc) ==
    LET c0 == SkipWs(cs)
        k == IF c0 # <<>> /\ Head(c0) = "\"" THEN ParseString(Tail(c0), <<>>) ELSE ParseFail
        c1 == SkipWs(k.rest)
        r == IF k.ok /\ c1 # <<>> /\ Head(c1) = ":" THEN ParseValue(Tail(c1)) ELSE ParseFail
        rest == SkipWs(r.rest)
    IN  IF ~r.ok \/ rest = <<>> THEN ParseFail
        ELSE CASE Head(rest) = "," -> ParseMembers(Tail(rest), Append(acc, Member(k.v.s, r.v)))
               [] Head(rest) = "}" -> Parsed(JObj(Append(acc, Member(k.v.s, r.v))), Tail(rest))
               [] OTHER -> ParseFail

ParseValue(cs) ==
    LET c0 == SkipWs(cs)
    IN  IF c0 = <<>> THEN ParseFail
        ELSE LET c == Head(c0)
                 after == SkipWs(Tail(c0))
             IN  CASE c = "\"" -> ParseString(Tail(c0), <<>>)
                   [] c = "[" ->
                         IF after # <<>> /\ Head(after) = "]"
                         THEN Parsed(JArr(<<>>), Tail(after))
                         ELSE ParseElems(Tail(c0), <<>>)
                   [] c = "{" ->
                         IF after # <<>> /\ Head(after) = "}"
                         THEN Parsed(JObj(<<>>), Tail(after))
                         ELSE ParseMembers(Tail(c0), <<>>)
                   [] c = "n" ->
                         IF Len(c0) >= 4 /\ SubSeq(c0, 1, 4) = <<"n", "u", "l", "l">>
                         THEN Parsed(JNull, SubSeq(c0, 5, Len(c0)))
                         ELSE ParseFail
                   [] IsDigit(c) -> ParseNumber(c0)
                   [] OTHER -> ParseFail

\* json.load(f): the value, or ParseFail for json.JSONDecodeError
json_load(text) ==
    LET r == ParseValue(text)
    IN  IF r.ok /\ SkipWs(r.rest) = <<>> THEN r ELSE ParseFail

-----------------------------------------------------------------------------
(* The transcript store: export_chat_history and import_chat_history *)

K_timestamp == <<"timestamp">>
K_model == <<"model">>
K_parameters == <<"parameters">>
K_temperature == <<"temperature">>
K_max_tokens == <<"max_tokens">>
K_conversation == <<"conversation">>
K_role == <<"role">>
K_content == <<"content">>
K_models == <<"models">>
K_name == <<"name">>

\* a history (a list of {role, content} dicts) as the JSON value it is
MessageJson(m) == JObj(<<Member(K_role, JStr(<<m.role>>)), Member(K_content, JStr(m.content))>>)
HistoryJson(history) == JArr([i \in 1..Len(history) |-> MessageJson(history[i])])

\* dict lookups; with a key given twice the last one counts
HasKey(obj, key) == \E i \in 1..Len(obj.o) : obj.o[i].k = key
Get(obj, key) ==
    obj.o[CHOOSE i \in 1..Len(obj.o) :
              obj.o[i].k = key /\ \A j \in (i + 1)..Len(obj.o) : obj.o[j].k # key].v

\* the values the two handlers return
Status(text, arg) == [text |-> text, arg |-> arg]

NoExport == Status("No chat history to export", <<>>)
Exported(filename) == Status("[ok] Chat exported to ", filename)
ExportFailed(e) == Status("[x] Export failed: ", <<e>>)
NoFileSelected == Status("No file selected", <<>>)
InvalidFormat == Status("[x] Invalid file format", <<>>)
Imported(count) == Status("[ok] Imported messages", <<count>>)
ImportFailed(e) == Status("[x] Import failed: ", <<e>>)

\* the files
Timestamps == {"20261102_140000"}
ExportName(ts) == <<"chat_export_", ts, ".json">>
UploadName == <<"upload", "", ".json">>
Paths == {ExportName(ts) : ts \in Timestamps} \cup {UploadName}
NoPath == <<"", "", "">>

\* where a file comes from: the export call that wrote it, or elsewhere
Origin(kind, history, model, temp, max_tok) ==
    [kind |-> kind, history |-> history, model |-> model, temperature |-> temp,
     max_tokens |-> max_tok]
Foreign == Origin("foreign", <<>>, <<>>, 0, 0)

File(exists, readable, text, origin) ==
    [exists |-> exists, readable |-> readable, text |-> text, origin |-> origin]
Missing == File(FALSE, FALSE, <<>>, Foreign)

\* export_data with the temperature and max_tokens taken for each other
ExportData_Swapped(history, model, temp, max_tok, ts) ==
    JObj(<<Member(K_timestamp, JStr(<<ts>>)),
           Member(K_model, JStr(model)),
           Member(K_parameters, JObj(<<Member(K_temperature, JInt(max_tok)),
                                       Member(K_max_tokens, JFloat(temp))>>)),
           Member(K_conversation, HistoryJson(history))>>)

\* export_data
ExportData(history, model, temp, max_tok, ts) ==
    JObj(<<Member(K_timestamp, JStr(<<ts>>)),
           Member(K_model, JStr(model)),
           Member(K_parameters, JObj(<<Member(K_temperature, JFloat(temp)),
                                       Member(K_max_tokens, JInt(max_tok))>>)),
           Member(K_conversation, HistoryJson(history))>>)

ExportResult(status, path) == [status |-> status, path |-> path]

\* what export_chat_history returns; io is what the file system does:
\* "ok", "open" (open() raises), "write" (a write raises part way)
export_chat_history(history, model, temp, max_tok, ts, io) ==
    IF history = <<>> THEN ExportResult(NoExport, NoPath)
    ELSE IF io # "ok" THEN ExportResult(ExportFailed("OSError"), NoPath)
    ELSE ExportResult(Exported(ExportName(ts)), ExportName(ts))

\* what export_chat_history leaves on the disk
ExportWrites(files, history, model, temp, max_tok, ts, io) ==
    LET text == json_dump(ExportData(history, model, temp, max_tok, ts))
    IN  IF history = <<>> \/ io = "open" THEN files
        ELSE IF io = "write"
        THEN [files EXCEPT ![ExportName(ts)] =
                 File(TRUE, TRUE, SubSeq(text, 1, Len(text) \div 2), Foreign)]
        ELSE [files EXCEPT ![ExportName(ts)] =
                 File(TRUE, TRUE, text, Origin("export", history, model, temp, max_tok))]

ImportResult(status, conversation, model, temp, max_tok) ==
    [status |-> status, conversation |-> conversation, model |-> model,
     temperature |-> temp, max_tokens |-> max_tok]

ImportDefaults(status) ==
    ImportResult(status, JArr(<<>>), JStr(<<>>), JFloat(DefaultTemperature),
                 JInt(DefaultMaxTokens))

RequiredKeys == {K_conversation, K_model, K_parameters}

\* `key in data`, for the types on which it does not raise
KeyIn(key, data) ==
    CASE data.t = "obj" -> HasKey(data, key)
      [] data.t = "arr" -> \E i \in 1..Len(data.a) : data.a[i] = JStr(key)
      [] data.t = "str" ->
            \E i \in 1..Len(data.s) : i + Len(key) - 1 <= Len(data.s)
                                      /\ SubSeq(data.s, i, i + Len(key) - 1) = key

\* a validation that is content with one of the keys
HasRequiredKeys_Any(data) == \E key \in RequiredKeys : KeyIn(key, data)

\* all(key in data for key in ["conversation", "model", "parameters"])
HasRequiredKeys(data) == \A key \in RequiredKeys : KeyIn(key, data)

\* len(conversation), for the types that have a length
PyLen(v) ==
    CASE v.t = "str" -> Len(v.s)
      [] v.t = "arr" -> Len(v.a)
      [] v.t = "obj" -> Cardinality({v.o[i].k : i \in 1..Len(v.o)})

\* params.get(key, default)
GetOr(params, key, default) == IF HasKey(params, key) THEN Get(params, key) ELSE default

\* the part of import_chat_history after json.load
ImportData(data) ==
    IF data.t \in {"int", "float", "null"} THEN ImportDefaults(ImportFailed("TypeError"))
    ELSE IF ~HasRequiredKeys(data) THEN ImportDefaults(InvalidFormat)
    ELSE IF data.t # "obj" THEN ImportDefaults(ImportFailed("TypeError"))
    ELSE IF \E key \in RequiredKeys : ~HasKey(data, key)
         THEN ImportDefaults(ImportFailed("KeyError"))
    ELSE LET conversation == Get(data, K_conversation)
             model == Get(data, K_model)
             params == Get(data, K_parameters)
         IN  IF conversation.t \in {"int", "float", "null"}
             THEN ImportDefaults(ImportFailed("TypeError"))
             ELSE IF params.t # "obj" THEN ImportDefaults(ImportFailed("AttributeError"))
             ELSE ImportResult(Imported(PyLen(conversation)), conversation, model,
                               GetOr(params, K_temperature, JFloat(DefaultTemperature)),
                               GetOr(params, K_max_tokens, JInt(DefaultMaxTokens)))

\* import_chat_history(file): file is NoPath for None
import_chat_history(files, file) ==
    IF file = NoPath THEN ImportDefaults(NoFileSelected)
    ELSE IF ~files[file].exists \/ ~files[file].readable
         THEN ImportDefaults(ImportFailed("OSError"))
    ELSE LET parsed == json_load(files[file].text)
         IN  IF ~parsed.ok THEN ImportDefaults(ImportFailed("JSONDecodeError"))
             ELSE ImportData(parsed.v)

\* the value a component is given, as the chat tab holds it.  A list of
\* {role, content} dicts is the sequence of its messages; a value that is
\* no message is kept as its JSON text, under the role ""
RawValue(v) == Message("", json_dump(v))

LiveMessage(v) ==
    IF /\ v.t = "obj"
       /\ HasKey(v, K_role) /\ Get(v, K_role).t = "str" /\ Len(Get(v, K_role).s) = 1
       /\ HasKey(v, K_content) /\ Get(v, K_content).t = "str"
    THEN Message(Get(v, K_role).s[1], Get(v, K_content).s)
    ELSE RawValue(v)

LiveConversation(v) ==
    IF v.t = "arr" THEN [i \in 1..Len(v.a) |-> LiveMessage(v.a[i])] ELSE <<RawValue(v)>>

\* a model name is one element of text
LiveModel(v) == CASE v.t = "str" /\ Len(v.s) <= 1 -> IF v.s = <<>> THEN "" ELSE v.s[1]

\* in tenths
LiveTemperature(v) == CASE v.t = "float" -> v.n [] v.t = "int" -> 10 * v.n

\* in units; a float is held in tenths
LiveMaxTokens(v) == CASE v.t = "int" -> v.n [] v.t = "float" -> v.n \div 10

\* the outputs of an import
Outputs(conversation, params) == [chatbot |-> conversation, settings |-> params]

\* the last event, and the live conversation and settings it found
Live(event, conversation, params) ==
    [event |-> event, chatbot |-> conversation, settings |-> params]

\* an import whose outputs leave the chatbot out
ImportOutputs_KeepConversation(out) ==
    Outputs(chatbot,
            [model |-> LiveModel(out.model), temperature |-> LiveTemperature(out.temperature),
             max_tokens |-> LiveMaxTokens(out.max_tokens)])

\* the values import_btn.click gives to the chatbot and the three settings
ImportOutputs(out) ==
    Outputs(LiveConversation(out.conversation),
            [model |-> LiveModel(out.model), temperature |-> LiveTemperature(out.temperature),
             max_tokens |-> LiveMaxTokens(out.max_tokens)])

\* the inputs of the store: histories, settings and files from elsewhere
Histories ==
    {<<>>,
     <<Message("user", <<"h", "\"", "i">>)>>,
     <<Message("user", <<"h", "i">>), Message("assistant", <<"H", "e", "\\", "\n", "}">>)>>}

ParamSets ==
    {[model |-> <<CURRENT_MODEL>>, temperature |-> 7, max_tokens |-> 2048],
     [model |-> <<"llama3">>, temperature |-> 20, max_tokens |-> 100]}

GoodParams == JObj(<<Member(K_temperature, JFloat(5)), Member(K_max_tokens, JInt(300))>>)
GoodConversation == HistoryJson(<<Message("user", <<"h", "i">>)>>)

Transcript(members) == File(TRUE, TRUE, json_dump(JObj(members)), Foreign)

ForeignFiles ==
    {Transcript(<<Member(K_conversation, GoodConversation), Member(K_model, JStr(<<"m">>)),
                  Member(K_parameters, GoodParams)>>),
     Transcript(<<Member(K_model, JStr(<<"m">>)), Member(K_parameters, GoodParams)>>),
     Transcript(<<Member(K_conversation, GoodConversation), Member(K_parameters, GoodParams)>>),
     Transcript(<<Member(K_conversation, GoodConversation), Member(K_model, JStr(<<"m">>))>>),
     Transcript(<<>>),
     Transcript(<<Member(K_conversation, JStr(<<"h", "i">>)), Member(K_model, JStr(<<"m">>)),
                  Member(K_parameters, GoodParams)>>),
     Transcript(<<Member(K_conversation, JArr(<<JInt(1), JStr(<<"x">>)>>)),
                  Member(K_model, JStr(<<"m">>)), Member(K_parameters, GoodParams)>>),
     Transcript(<<Member(K_conversation, JInt(5)), Member(K_model, JStr(<<"m">>)),
                  Member(K_parameters, GoodParams)>>),
     Transcript(<<Member(K_conversation, GoodConversation), Member(K_model, JStr(<<"m">>)),
                  Member(K_parameters, JObj(<<>>))>>),
     Transcript(<<Member(K_conversation, GoodConversation), Member(K_model, JStr(<<"m">>)),
                  Member(K_parameters, JStr(<<"p">>))>>),
     File(TRUE, TRUE, json_dump(JArr(<<JStr(K_conversation), JStr(K_model), JStr(K_parameters)>>)), Foreign),
     File(TRUE, TRUE, json_dump(JStr(K_conversation \o K_model \o K_parameters)), Foreign),
     File(TRUE, TRUE, json_dump(JInt(5)), Foreign),
     File(TRUE, TRUE, <<"h", "i">>, Foreign),
     File(TRUE, FALSE, <<>>, Foreign)}

StoreOut(op, status, path, r, read) ==
    [op |-> op, status |-> status, path |-> path, conversation |-> r.conversation,
     model |-> r.model, temperature |-> r.temperature, max_tokens |-> r.max_tokens,
     read |-> read]

StoreInit ==
    /\ disk = [p \in Paths |-> Missing]
    /\ storeOut = StoreOut("none", Status("", <<>>), NoPath, ImportDefaults(NoExport), Missing)

-----------------------------------------------------------------------------
(* The chat tab: event handlers and their wiring *)

Listeners == {"submit", "click"}

\* what the user can type into the message box
Typed == {<<>>, <<" ">>, <<"h", "i">>}

IdleRelay == [pc |-> "idle", history |-> <<>>, gen |-> IdleGen]

\* user_input, the first handler of msg.submit / send_btn.click (queue=False);
\* its outputs are [msg, chatbot]; bot_response is chained with .then
user_input(message, history) ==
    IF Strip(message) = <<>>
    THEN history
    ELSE Append(history, Message("user", message))

\* the event fires with message typed into the box
UserInput(l, message, maxSends) ==
    /\ relay[l].pc = "idle"
    /\ sends < maxSends
    /\ sends' = sends + 1
    /\ chatbot' = user_input(message, chatbot)
    /\ msg' = <<>>
    /\ relay' = [relay EXCEPT ![l].pc = "then"]
    /\ UNCHANGED <<settings, crashed, reads, storeVars, cmpVars, sideVars>>

\* bot_response up to the creation of the generator: it works on its own
\* copy of the chatbot value
BotStart(l) ==
    /\ relay[l].pc = "then"
    /\ IF chatbot = <<>>
       THEN relay' = [relay EXCEPT ![l] = IdleRelay]
       ELSE LET user_message == Last(chatbot).content
                history == Append(chatbot, Message("assistant", <<>>))
            IN  relay' = [relay EXCEPT ![l] =
                    [pc |-> "streaming", history |-> history,
                     gen |-> NewGen(user_message, SubSeq(history, 1, Len(history) - 2),
                                    settings.model, settings.temperature,
                                    settings.max_tokens)]]
    /\ UNCHANGED <<chatbot, msg, settings, crashed, sends, reads, storeVars, cmpVars, sideVars>>

\* history[-1]["content"] = chunk
WritePlaceholder(history, chunk) == [history EXCEPT ![Len(history)].content = chunk]

\* one turn of `for chunk in generate_response(...)`: the generator has run
\* to its next yield, to its end or to an exception, and is now g
Deliver(l, g) ==
    /\ IF g.pc = "raised"
       THEN /\ relay' = [relay EXCEPT ![l].pc = "idle", ![l].gen = g]
            /\ crashed' = crashed \cup {l}
            /\ UNCHANGED chatbot
       ELSE /\ crashed' = crashed
            /\ IF g.yield # <<>>
               THEN LET history == WritePlaceholder(relay[l].history, g.yield[1])
                    IN  /\ relay' = [relay EXCEPT ![l].history = history, ![l].gen = g,
                                        ![l].pc = IF g.pc = "done" THEN "idle" ELSE "streaming"]
                        /\ chatbot' = history
               ELSE /\ relay' = [relay EXCEPT ![l].gen = g,
                                    ![l].pc = IF g.pc = "done" THEN "idle" ELSE "streaming"]
                    /\ UNCHANGED chatbot
    /\ UNCHANGED <<msg, settings, sends, storeVars, cmpVars, sideVars>>

BotProbe(l, outcome) ==
    /\ relay[l].pc = "streaming"
    /\ relay[l].gen.pc = "probe"
    /\ Deliver(l, GenProbe(relay[l].gen, outcome))
    /\ UNCHANGED reads

BotPost(l, outcome) ==
    /\ relay[l].pc = "streaming"
    /\ relay[l].gen.pc = "post"
    /\ Deliver(l, GenPost(relay[l].gen, outcome))
    /\ UNCHANGED reads

BotLine(l, ev, maxLines) ==
    /\ relay[l].pc = "streaming"
    /\ relay[l].gen.pc = "iter"
    /\ ev \in Lines => reads < maxLines
    /\ reads' = IF ev \in Lines THEN reads + 1 ELSE reads
    /\ Deliver(l, GenLine(relay[l].gen, ev))

\* clear_chat, wired to clear_btn.click with the chatbot as its output
clear_chat == <<>>

Clear ==
    /\ chatbot # <<>>
    /\ chatbot' = clear_chat
    /\ UNCHANGED <<msg, settings, relay, crashed, sends, reads, storeVars, cmpVars, sideVars>>

DefaultSettings ==
    [model |-> CURRENT_MODEL, temperature |-> DefaultTemperature,
     max_tokens |-> DefaultMaxTokens]

RelayInit ==
    /\ chatbot = <<>>
    /\ msg = <<>>
    /\ settings = DefaultSettings
    /\ relay = [l \in Listeners |-> IdleRelay]
    /\ crashed = {}
    /\ sends = 0
    /\ reads = 0

GhostInit ==
    /\ received = <<>>
    /\ yielded = <<>>
    /\ netlog = <<>>

-----------------------------------------------------------------------------
(* compare_models *)

Sentinels == {"No models available", "Download another model"}

CmpModels == Sentinels \cup {CURRENT_MODEL, "llama3"}

EnterPrompt == "Please enter a prompt to compare models"
NeedTwoModels == "[x] Please download at least 2 models to use the comparison feature"
SelectDifferent == "[x] Please select two different models for comparison"

\* what compare_models returns: the text and the status
CmpResult(message, r1, r2, status) ==
    [message |-> message, response1 |-> r1, response2 |-> r2,
     len1 |-> Len(r1), len2 |-> Len(r2), status |-> status]

\* the checks without the one for twice the same model
Precondition_NoDuplicateCheck(prompt, model1, model2) ==
    IF Strip(prompt) = <<>> THEN EnterPrompt
    ELSE IF model1 \in Sentinels \/ model2 \in Sentinels THEN NeedTwoModels
    ELSE ""

\* the checks at the head of compare_models: the message returned, or ""
\* when the comparison goes ahead
Precondition(prompt, model1, model2) ==
    IF Strip(prompt) = <<>> THEN EnterPrompt
    ELSE IF model1 \in Sentinels \/ model2 \in Sentinels THEN NeedTwoModels
    ELSE IF model1 = model2 THEN SelectDifferent
    ELSE ""

IdleCmp ==
    [pc |-> "idle", called |-> FALSE, prompt |-> <<>>, model1 |-> "", model2 |-> "",
     gen |-> IdleGen, response1 |-> <<>>, response2 |-> <<>>, nread |-> 0]

CmpInit ==
    /\ cmp = IdleCmp
    /\ cmpOut = CmpResult("", <<>>, <<>>, "Ready to compare")

\* compare_btn.click: compare_models up to its first generator
CompareClick(prompt, model1, model2) ==
    /\ cmp.pc = "idle"
    /\ netlog' = <<>>
    /\ LET message == Precondition(prompt, model1, model2)
           args == [IdleCmp EXCEPT !.called = TRUE, !.prompt = prompt,
                                   !.model1 = model1, !.model2 = model2]
       IN  IF message # ""
           THEN /\ cmp' = args
                /\ cmpOut' = CmpResult(message, <<>>, <<>>, "")
           ELSE /\ cmp' = [args EXCEPT !.pc = "first",
                               !.gen = NewGen(prompt, <<>>, model1, DefaultTemperature,
                                              DefaultMaxTokens)]
                /\ UNCHANGED cmpOut
    /\ UNCHANGED <<relayVars, received, yielded, storeVars, sideVars>>

\* one turn of `for chunk in generate_response(...)` of either loop: the
\* generator is now g, having read this many more lines
CmpDeliver(g, lines) ==
    LET r1 == IF cmp.pc = "first" /\ g.yield # <<>> THEN g.yield[1] ELSE cmp.response1
        r2 == IF cmp.pc = "second" /\ g.yield # <<>> THEN g.yield[1] ELSE cmp.response2
    IN  IF g.pc = "raised"
        THEN /\ cmp' = [cmp EXCEPT !.pc = "idle", !.gen = g, !.nread = @ + lines]
             /\ cmpOut' = CmpResult("[x] Comparison failed: ", <<>>, <<>>, "")
        ELSE IF g.pc # "done"
        THEN /\ cmp' = [cmp EXCEPT !.gen = g, !.response1 = r1, !.response2 = r2,
                            !.nread = @ + lines]
             /\ UNCHANGED cmpOut
        ELSE IF cmp.pc = "first"
        THEN /\ cmp' = [cmp EXCEPT !.pc = "second", !.response1 = r1, !.nread = @ + lines,
                            !.gen = NewGen(cmp.prompt, <<>>, cmp.model2, DefaultTemperature,
                                           DefaultMaxTokens)]
             /\ UNCHANGED cmpOut
        ELSE /\ cmp' = [cmp EXCEPT !.pc = "idle", !.gen = g, !.response2 = r2,
                            !.nread = @ + lines]
             /\ cmpOut' = CmpResult("comparison", r1, r2, "Comparison completed at ")

CmpProbe ==
    \E o \in ProbeOutcomes :
        /\ cmp.pc \in {"first", "second"}
        /\ cmp.gen.pc = "probe"
        /\ CmpDeliver(GenProbe(cmp.gen, o), 0)
        /\ netlog' = Append(netlog, [op |-> "GET", res |-> o])
        /\ UNCHANGED <<relayVars, received, yielded, storeVars, sideVars>>

CmpPost ==
    \E o \in PostOutcomes :
        /\ cmp.pc \in {"first", "second"}
        /\ cmp.gen.pc = "post"
        /\ CmpDeliver(GenPost(cmp.gen, o), 0)
        /\ netlog' = Append(netlog, [op |-> "POST", res |-> o])
        /\ UNCHANGED <<relayVars, received, yielded, storeVars, sideVars>>

CmpLine ==
    \E ev \in UIEvents \cup {Raw("nonobject"), Raw("Timeout")} :
        /\ cmp.pc \in {"first", "second"}
        /\ cmp.gen.pc = "iter"
        /\ ev \in Lines => cmp.nread < MaxUILines
        /\ CmpDeliver(GenLine(cmp.gen, ev), IF ev \in Lines THEN 1 ELSE 0)
        /\ UNCHANGED <<relayVars, ghostVars, storeVars, sideVars>>

-----------------------------------------------------------------------------
(* get_available_models *)

\* the models the server can have, in the order of its list
TagNames == {CURRENT_MODEL, "llama3"}

ModelEntry(name) == JObj(<<Member(K_name, JStr(<<name>>))>>)
ModelEntries(installed) == [i \in 1..Len(installed) |-> ModelEntry(installed[i])]

\* the bodies a 200 answer to GET /api/tags can carry: the list of the
\* server's models, and the bodies that are not of that shape
BodyKinds ==
    {"tags", "noname", "strings", "nomodels", "nullmodels", "array", "string", "notjson"}

TagsBody(kind, installed) ==
    CASE kind = "tags" ->
            json_dump(JObj(<<Member(K_models, JArr(ModelEntries(installed)))>>))
      [] kind = "noname" ->
            json_dump(JObj(<<Member(K_models,
                JArr(Append(ModelEntries(installed),
                            JObj(<<Member(K_model, JStr(<<"llama3">>))>>))))>>))
      [] kind = "strings" ->
            json_dump(JObj(<<Member(K_models,
                JArr([i \in 1..Len(installed) |-> JStr(<<installed[i]>>)]))>>))
      [] kind = "nomodels" -> json_dump(JObj(<<>>))
      [] kind = "nullmodels" -> json_dump(JObj(<<Member(K_models, JNull)>>))
      [] kind = "array" -> json_dump(JArr(ModelEntries(installed)))
      [] kind = "string" -> json_dump(JStr(<<"o", "k">>))
      [] kind = "notjson" -> <<"h", "i">>

\* what requests.get hands over: an exception, or a status and a body
TagsReply(outcome, body) == [outcome |-> outcome, body |-> body]

\* how the call ends: the exception that leaves it ("" for none) and the
\* list returned
Listing(raised, models) == [raised |-> raised, models |-> models]

Fallback == Listing("", <<JStr(<<CURRENT_MODEL>>)>>)

\* [model['name'] for model in models], models being a JSON array
NamesOf(models) ==
    IF \E i \in 1..Len(models.a) : models.a[i].t # "obj" \/ ~HasKey(models.a[i], K_name)
    THEN LET i == CHOOSE j \in 1..Len(models.a) :
                      /\ models.a[j].t # "obj" \/ ~HasKey(models.a[j], K_name)
                      /\ \A k \in 1..(j - 1) :
                            models.a[k].t = "obj" /\ HasKey(models.a[k], K_name)
         IN  Listing(IF models.a[i].t = "obj" THEN "KeyError" ELSE "TypeError", <<>>)
    ELSE Listing("", [i \in 1..Len(models.a) |-> Get(models.a[i], K_name)])

get_available_models(reply) ==
    IF reply.outcome \in {"Timeout", "ConnectionError"} THEN Fallback
    ELSE IF reply.outcome # "200" THEN Fallback
    ELSE LET parsed == json_load(reply.body)
         IN  IF ~parsed.ok THEN Fallback
             ELSE IF parsed.v.t # "obj" THEN Listing("AttributeError", <<>>)
             ELSE LET models == GetOr(parsed.v, K_models, JArr(<<>>))
                  IN  CASE models.t = "arr" -> NamesOf(models)
                        [] models.t \in {"int", "float", "null"} -> Listing("TypeError", <<>>)
                        [] models.t = "str" ->
                              IF models.s = <<>> THEN Listing("", <<>>)
                              ELSE Listing("TypeError", <<>>)
                        [] models.t = "obj" ->
                              IF models.o = <<>> THEN Listing("", <<>>)
                              ELSE Listing("TypeError", <<>>)

TagsState(installed, called, reply, result) ==
    [installed |-> installed, called |-> called, reply |-> reply, result |-> result]

IdleTags == TagsState(<<>>, FALSE, TagsReply("", <<>>), Listing("", <<>>))

\* a model is pulled on the server
ServerPull ==
    \E name \in TagNames :
        /\ Len(tags.installed) < MaxModels
        /\ tags' = [tags EXCEPT !.installed = Append(@, name)]
        /\ UNCHANGED <<relayVars, ghostVars, storeVars, cmpVars, assembly, before>>

\* available_models = get_available_models()
ListModels ==
    \E outcome \in ProbeOutcomes : \E kind \in BodyKinds :
        /\ outcome # "200" => kind = "notjson"
        /\ LET reply == TagsReply(outcome, TagsBody(kind, tags.installed))
           IN  tags' = TagsState(tags.installed, TRUE, reply, get_available_models(reply))
        /\ UNCHANGED <<relayVars, ghostVars, storeVars, cmpVars, assembly, before>>

-----------------------------------------------------------------------------
(* The prompt assembly of generate_response, called on its own *)

SeqsUpTo(S, n) == UNION {[1..k -> S] : k \in 0..n}

\* the turns of a history: both roles, with and without content, and a
\* content of two lines
PromptContents == {<<>>, <<"h", "i">>, <<"a", "\n", "b">>}
PromptTurns == {Message(r, c) : r \in {"user", "assistant"}, c \in PromptContents}
PromptHistories == SeqsUpTo(PromptTurns, MaxTurns)

PromptCall(history, message) ==
    [history |-> history, message |-> message, built |-> FALSE, text |-> <<>>]

IdlePrompt == PromptCall(<<>>, <<>>)

\* the lines of generate_response from `conversation = ""` to the f-string
AssemblePrompt ==
    /\ ~assembly.built
    /\ assembly' = [assembly EXCEPT !.built = TRUE,
                                !.text = BuildPrompt(assembly.history, assembly.message)]
    /\ UNCHANGED <<relayVars, ghostVars, storeVars, cmpVars, tags, before>>

SideInit ==
    /\ assembly = IdlePrompt
    /\ tags = IdleTags
    /\ before = Live("none", <<>>, DefaultSettings)

-----------------------------------------------------------------------------
(* Spec: one listener, one send after the other, every stream event; the
   history variables follow the generator of the running send *)

vars == <<chatbot, msg, settings, relay, crashed, sends, reads, received, yielded, netlog,
          disk, storeOut, cmp, cmpOut, assembly, tags, before>>

Init == RelayInit /\ GhostInit /\ StoreInit /\ CmpInit /\ SideInit

SubmitMessage == \E m \in Typed : UserInput("submit", m, MaxSends) /\ UNCHANGED <<ghostVars>>

StartResponse ==
    /\ BotStart("submit")
    /\ received' = <<>>
    /\ yielded' = <<>>
    /\ netlog' = <<>>

\* the items of this turn, each with the number of lines read when it was yielded
Yields(l) ==
    IF relay'[l].gen.pc # "raised" /\ relay'[l].gen.yield # <<>>
    THEN <<[item |-> relay'[l].gen.yield[1], at |-> Len(received')]>>
    ELSE <<>>

ProbeServer ==
    \E o \in ProbeOutcomes :
        /\ BotProbe("submit", o)
        /\ netlog' = Append(netlog, [op |-> "GET", res |-> o])
        /\ received' = received
        /\ yielded' = yielded \o Yields("submit")

PostPrompt ==
    \E o \in PostOutcomes :
        /\ BotPost("submit", o)
        /\ netlog' = Append(netlog, [op |-> "POST", res |-> o])
        /\ received' = received
        /\ yielded' = yielded \o Yields("submit")

ReadLine ==
    \E ev \in StreamEvents :
        /\ BotLine("submit", ev, MaxLines)
        /\ received' = IF ev \in Lines THEN Append(received, ev) ELSE received
        /\ yielded' = yielded \o Yields("submit")
        /\ UNCHANGED netlog

ClearChat ==
    /\ relay["submit"].pc = "idle"
    /\ Clear
    /\ UNCHANGED <<ghostVars>>

Next ==
    \/ SubmitMessage
    \/ StartResponse
    \/ ProbeServer
    \/ PostPrompt
    \/ ReadLine
    \/ ClearChat

Spec == Init /\ [][Next]_vars

-----------------------------------------------------------------------------
(* Claims about the generator and the relay, checked under Spec *)

\* the response fragments of the lines, concatenated in arrival order
RECURSIVE ConcatResp(_)
ConcatResp(lines) ==
    IF lines = <<>> THEN <<>>
    ELSE LET ln == Head(lines)
         IN  (IF ln.kind = "object" /\ ln.hasResp /\ ln.isStr THEN ln.resp ELSE <<>>)
             \o ConcatResp(Tail(lines))

\* C1: on a fault-free stream every item yielded is the concatenation, in
\* arrival order, of the response fragments of all lines read up to and
\* including the line that triggered it, and that line carries a fragment:
\* the consumer gets the text so far, never a fragment alone.
C1_CumulativeItems ==
    \A k \in 1..Len(yielded) :
        yielded[k].item \notin ErrorTexts =>
            /\ yielded[k].at \in 1..Len(received)
            /\ received[yielded[k].at].hasResp
            /\ yielded[k].item = ConcatResp(SubSeq(received, 1, yielded[k].at))

C1_Witness ==
    /\ Len(yielded) = 2
    /\ yielded[1].item = <<"H", "e">>
    /\ yielded[2].item = <<"H", "e", "l", "l", "o">>
    /\ received[2].resp = <<"l", "l", "o">>

\* C2: a line whose done field is true ends the sequence whatever else it
\* carries: no line is read after it.
C2_DoneTerminates ==
    \A i \in 1..Len(received) : received[i].done = "true" => i = Len(received)

\* the value a relay writes to its placeholder in this step, if it writes
Writes(l) ==
    /\ relay[l].pc = "streaming"
    /\ relay'[l].history # relay[l].history

\* C4: every value written to the placeholder has the value written before
\* it as a prefix, whatever the outcome of the stream.
C4_Monotonic ==
    [][\A l \in Listeners :
          Writes(l) => IsPrefix(Last(relay[l].history).content,
                                Last(relay'[l].history).content)]_vars

\* C4 as amended: a written value extends the value written before it unless
\* it is the error text of a failure, which replaces the content and is the
\* last value written.
C4_MonotonicUntilError ==
    [][\A l \in Listeners :
          Writes(l) =>
              IF Last(relay'[l].history).content \in ErrorTexts
              THEN relay'[l].pc = "idle"
              ELSE IsPrefix(Last(relay[l].history).content,
                            Last(relay'[l].history).content)]_vars

C4_Witness ==
    /\ relay["submit"].pc = "idle"
    /\ Len(yielded) = 3
    /\ yielded[1].item = <<"H", "e">>
    /\ yielded[2].item = <<"H", "e", "l", "l", "o">>
    /\ yielded[3].item = ErrTimeout
    /\ Last(relay["submit"].history).content = ErrTimeout
    /\ Last(chatbot).content = ErrTimeout

\* C5: no failure of the server exchange leaves generate_response as an
\* uncaught exception.
C5_NoUncaughtFault == crashed = {}

\* C6: when the health check is false, the call yields exactly one item, the
\* error text, ends, and issues no POST.
C6_UnhealthyOneItemNoPost ==
    (netlog # <<>> /\ netlog[1].op = "GET" /\ ~check_ollama_status(netlog[1].res)) =>
        /\ \A i \in 1..Len(netlog) : netlog[i].op # "POST"
        /\ Len(netlog) = 1
        /\ yielded = <<[item |-> ErrNotRunning, at |-> 0]>>
        /\ relay["submit"].gen.pc = "done"
        /\ received = <<>>

C6_Witness ==
    /\ netlog = <<[op |-> "GET", res |-> "ConnectionError"]>>
    /\ yielded # <<>>
    /\ Last(chatbot) = Message("assistant", ErrNotRunning)

-----------------------------------------------------------------------------
(* SpecUI: both send listeners and the clear button, as the wiring lets them
   run: user_input is not queued (queue=False) and so runs while a
   bot_response of the other listener is streaming; no listener cancels
   another (no cancels= in the wiring); every handler works on the chatbot
   value it was given and its output replaces the chatbot value. *)

UISend == \E l \in Listeners : \E m \in Typed : UserInput(l, m, MaxUISends) /\ UNCHANGED <<ghostVars>>

UIStart == \E l \in Listeners : BotStart(l) /\ UNCHANGED <<ghostVars>>

UIProbe ==
    \E l \in Listeners : \E o \in {"200", "ConnectionError"} :
        BotProbe(l, o) /\ UNCHANGED <<ghostVars>>

UIPost ==
    \E l \in Listeners : \E o \in {"200", "500"} :
        BotPost(l, o) /\ UNCHANGED <<ghostVars>>

UILine ==
    \E l \in Listeners : \E ev \in UIEvents :
        BotLine(l, ev, MaxUILines) /\ UNCHANGED <<ghostVars>>

UIClear == Clear /\ UNCHANGED <<ghostVars>>

NextUI ==
    \/ UISend
    \/ UIStart
    \/ UIProbe
    \/ UIPost
    \/ UILine
    \/ UIClear

SpecUI == Init /\ [][NextUI]_vars

\* the conversation but for the message being written
Settled(conv) == SubSeq(conv, 1, Len(conv) - 1)

\* C3: a new send or a clear supersedes the stream in flight: at most one
\* placeholder is being written at any moment, and a stream writes only while
\* the live conversation is still the one it works on (with or without its
\* placeholder), so it neither drops a user message appended meanwhile nor
\* brings back a cleared conversation.
C3_SupersededStreamStops ==
    [][/\ Cardinality({l \in Listeners : relay'[l].pc = "streaming"}) <= 1
       /\ \A l \in Listeners :
              Writes(l) => chatbot \in {relay[l].history, Settled(relay[l].history)}]_vars

-----------------------------------------------------------------------------
(* SpecStore: exports, files put there from elsewhere, and imports *)

\* export_btn.click
Export ==
    \E history \in Histories : \E p \in ParamSets : \E ts \in Timestamps :
    \E io \in {"ok", "open", "write"} :
        LET out == export_chat_history(history, p.model, p.temperature, p.max_tokens, ts, io)
        IN  /\ disk' = ExportWrites(disk, history, p.model, p.temperature, p.max_tokens, ts, io)
            /\ storeOut' = StoreOut("export", out.status, out.path, ImportDefaults(NoExport), Missing)
            /\ UNCHANGED <<relayVars, ghostVars, cmpVars, sideVars>>

\* the user picks a file of their own
PickFile ==
    \E f \in ForeignFiles :
        /\ disk[UploadName] # f
        /\ disk' = [disk EXCEPT ![UploadName] = f]
        /\ UNCHANGED <<storeOut, relayVars, ghostVars, cmpVars, assembly, tags>>

Upload == PickFile /\ UNCHANGED before

\* import_btn.click: import_chat with its outputs import_status, chatbot,
\* model_dropdown, temperature and max_tokens
ImportClick ==
    \E file \in Paths \cup {NoPath} :
        LET out == import_chat_history(disk, file)
        IN  /\ storeOut' = StoreOut("import", out.status, file, out,
                                    IF file = NoPath THEN Missing ELSE disk[file])
            /\ chatbot' = ImportOutputs(out).chatbot
            /\ settings' = ImportOutputs(out).settings
            /\ UNCHANGED <<disk, msg, relay, crashed, sends, reads, ghostVars, cmpVars,
                           assembly, tags>>

Import == ImportClick /\ UNCHANGED before

NextStore ==
    \/ Export
    \/ Upload
    \/ Import

SpecStore == Init /\ [][NextStore]_vars

-----------------------------------------------------------------------------
(* Claims about the transcript store, checked under SpecStore *)

\* the JSON value is the list of messages of the history: same length, same
\* order, same role and content
SameConversation(value, history) ==
    /\ value.t = "arr"
    /\ Len(value.a) = Len(history)
    /\ \A i \in 1..Len(history) :
          /\ value.a[i].t = "obj"
          /\ {value.a[i].o[j].k : j \in 1..Len(value.a[i].o)} = {K_role, K_content}
          /\ Get(value.a[i], K_role) = JStr(<<history[i].role>>)
          /\ Get(value.a[i], K_content) = JStr(history[i].content)

\* C7: importing the file that an export of a non-empty conversation C with
\* (model, t, n) wrote succeeds and returns C and (model, t, n).
C7_RoundTrip ==
    (storeOut.op = "import" /\ storeOut.read.origin.kind = "export") =>
        LET from == storeOut.read.origin
        IN  /\ storeOut.status = Imported(Len(from.history))
            /\ SameConversation(storeOut.conversation, from.history)
            /\ storeOut.model = JStr(from.model)
            /\ storeOut.temperature = JFloat(from.temperature)
            /\ storeOut.max_tokens = JInt(from.max_tokens)

C7_Witness ==
    /\ storeOut.op = "import"
    /\ storeOut.read.origin.kind = "export"
    /\ Len(storeOut.read.origin.history) = 2
    /\ storeOut.read.origin.history[2].content = <<"H", "e", "\\", "\n", "}">>
    /\ storeOut.temperature = JFloat(20)

IsMessage(v) ==
    /\ v.t = "obj"
    /\ HasKey(v, K_role) /\ Get(v, K_role).t = "str"
    /\ HasKey(v, K_content) /\ Get(v, K_content).t = "str"

IsMessageSeq(v) == v.t = "arr" /\ \A i \in 1..Len(v.a) : IsMessage(v.a[i])

IsFailure(status) ==
    status.text \in {NoFileSelected.text, InvalidFormat.text, ImportFailed("").text}

\* the file the last import read is a JSON object
ReadObject ==
    /\ storeOut.op = "import"
    /\ storeOut.read.exists /\ storeOut.read.readable
    /\ json_load(storeOut.read.text).ok
    /\ json_load(storeOut.read.text).v.t = "obj"

\* C8: a file whose conversation field is there but is no sequence of
\* messages is rejected as a whole: the import returns a failure status and
\* an empty conversation.
C8_RejectsNonMessages ==
    (/\ ReadObject
     /\ HasKey(json_load(storeOut.read.text).v, K_conversation)
     /\ ~IsMessageSeq(Get(json_load(storeOut.read.text).v, K_conversation))) =>
        /\ IsFailure(storeOut.status)
        /\ storeOut.conversation = JArr(<<>>)

\* the cases of a failing import
NoFileGiven == storeOut.op = "import" /\ storeOut.path = NoPath
Unreadable ==
    /\ storeOut.op = "import" /\ storeOut.path # NoPath
    /\ ~(storeOut.read.exists /\ storeOut.read.readable)
NotJson ==
    /\ storeOut.op = "import" /\ storeOut.path # NoPath
    /\ storeOut.read.exists /\ storeOut.read.readable
    /\ ~json_load(storeOut.read.text).ok
MissingKey ==
    /\ ReadObject
    /\ \E key \in RequiredKeys : ~HasKey(json_load(storeOut.read.text).v, key)

ReturnsDefaults ==
    /\ storeOut.conversation = JArr(<<>>)
    /\ storeOut.model = JStr(<<>>)
    /\ storeOut.temperature = JFloat(DefaultTemperature)
    /\ storeOut.max_tokens = JInt(DefaultMaxTokens)

\* C9: with no file, an unreadable file, a file that is not JSON or a JSON
\* object without one of the three keys, the import returns the
\* invalid-format status, an empty conversation, 0.7 and 2048.
C9_InvalidFormatStatus ==
    (NoFileGiven \/ Unreadable \/ NotJson \/ MissingKey) =>
        /\ storeOut.status = InvalidFormat
        /\ ReturnsDefaults

\* C9 as amended: in each of these cases the import returns a failure status
\* of its own ("No file selected", "Import failed: <error>" for an unreadable
\* file or one that is not JSON, "Invalid file format" for a missing key), an
\* empty conversation, an empty model, 0.7 and 2048.
C9_FailsGracefully ==
    /\ NoFileGiven => storeOut.status = NoFileSelected /\ ReturnsDefaults
    /\ Unreadable => storeOut.status = ImportFailed("OSError") /\ ReturnsDefaults
    /\ NotJson => storeOut.status = ImportFailed("JSONDecodeError") /\ ReturnsDefaults
    /\ MissingKey => storeOut.status = InvalidFormat /\ ReturnsDefaults

C9_Witness ==
    /\ MissingKey
    /\ HasKey(json_load(storeOut.read.text).v, K_conversation)
    /\ HasKey(json_load(storeOut.read.text).v, K_parameters)
    /\ storeOut.status = InvalidFormat

-----------------------------------------------------------------------------
(* SpecCmp: the comparison tab *)

Compare ==
    \E prompt \in Typed : \E model1 \in CmpModels : \E model2 \in CmpModels :
        CompareClick(prompt, model1, model2)

NextCmp ==
    \/ Compare
    \/ CmpProbe
    \/ CmpPost
    \/ CmpLine

SpecCmp == Init /\ [][NextCmp]_vars

\* the arguments of the last call fail a precondition
Blank(text) == \A i \in 1..Len(text) : text[i] \in {" ", "\n"}

FailsPrecondition ==
    /\ cmp.called
    /\ \/ Blank(cmp.prompt)
       \/ cmp.model1 \in Sentinels
       \/ cmp.model2 \in Sentinels
       \/ cmp.model1 = cmp.model2

\* C10: when the prompt is blank, a model is a placeholder sentinel or the
\* two models are the same, compare_models issues no network call and
\* returns a message for the user with an empty status; with the same model
\* twice (and nothing else wrong) the message is the duplicate-selection one.
C10_PreconditionNoNetwork ==
    FailsPrecondition =>
        /\ netlog = <<>>
        /\ cmp.pc = "idle"
        /\ cmpOut.status = ""
        /\ cmpOut.message \in {EnterPrompt, NeedTwoModels, SelectDifferent}
        /\ (/\ ~Blank(cmp.prompt)
            /\ cmp.model1 \notin Sentinels
            /\ cmp.model2 \notin Sentinels) => cmpOut.message = SelectDifferent

C10_Witness ==
    /\ cmp.called
    /\ cmp.prompt = <<"h", "i">>
    /\ cmp.model1 = CURRENT_MODEL
    /\ cmp.model2 = CURRENT_MODEL
    /\ cmpOut.message = SelectDifferent

-----------------------------------------------------------------------------
(* SpecPrompt: the prompt assembly applied to every history and message of
   the bounds *)

InitPrompt ==
    /\ RelayInit /\ GhostInit /\ StoreInit /\ CmpInit
    /\ tags = IdleTags
    /\ before = Live("none", <<>>, DefaultSettings)
    /\ assembly \in {PromptCall(h, m) : h \in PromptHistories, m \in Typed}

NextPrompt == AssemblePrompt

SpecPrompt == InitPrompt /\ [][NextPrompt]_vars

\* the turns that count: all but the assistant turns without content
Kept(history) == SelectSeq(history, LAMBDA m : ~(m.role = "assistant" /\ m.content = <<>>))

Label(role) == IF role = "user" THEN "User: " ELSE "Assistant: "

\* the text before position i of the prompt: the labelled lines of the
\* first i - 1 turns that count
RECURSIVE LinesBefore(_, _)
LinesBefore(kept, i) ==
    IF i = 1 THEN <<>>
    ELSE LinesBefore(kept, i - 1) \o <<Label(kept[i - 1].role)>> \o kept[i - 1].content
         \o <<"\n">>

\* C11: the prompt built from a history and a message m holds one labelled
\* line per turn of the history, in the order of the history, "User: " for
\* the user turns and "Assistant: " for the assistant turns, leaves out
\* exactly the assistant turns without content, and ends with "User: m"
\* followed by "Assistant:".
C11_PromptFraming ==
    assembly.built =>
        LET kept == Kept(assembly.history)
        IN  assembly.text = LinesBefore(kept, Len(kept) + 1)
                          \o <<"User: ">> \o assembly.message \o <<"\nAssistant:">>

C11_Witness ==
    /\ assembly.built
    /\ assembly.history = <<Message("user", <<"h", "i">>), Message("assistant", <<>>),
                          Message("assistant", <<"a", "\n", "b">>)>>
    /\ assembly.message = <<"h", "i">>
    /\ assembly.text = <<"User: ", "h", "i", "\n", "Assistant: ", "a", "\n", "b", "\n",
                       "User: ", "h", "i", "\nAssistant:">>

-----------------------------------------------------------------------------
(* SpecModels: the server's models change, and the listing is asked for *)

NextModels ==
    \/ ServerPull
    \/ ListModels

SpecModels == Init /\ [][NextModels]_vars

\* the body of the last answer is not JSON, is JSON but not an object, or
\* is an object whose `models` list has an entry without a `name`
MalformedBody ==
    LET parsed == json_load(tags.reply.body)
    IN  \/ ~parsed.ok
        \/ parsed.v.t # "obj"
        \/ /\ HasKey(parsed.v, K_models)
           /\ Get(parsed.v, K_models).t = "arr"
           /\ \E i \in 1..Len(Get(parsed.v, K_models).a) :
                 LET entry == Get(parsed.v, K_models).a[i]
                 IN  entry.t # "obj" \/ ~HasKey(entry, K_name)

\* C12: get_available_models never raises to its caller, and returns
\* [CURRENT_MODEL] whenever the server is unreachable, answers with a status
\* other than 200, or answers with a malformed body.
C12_FallbackNeverRaises ==
    tags.called =>
        /\ tags.result.raised = ""
        /\ (tags.reply.outcome # "200" \/ MalformedBody) => tags.result = Fallback

-----------------------------------------------------------------------------
(* SpecSeq: sends and clears one after the other; each send runs
   user_input and then bot_response to its end before the next event *)

AllIdle == \A l \in Listeners : relay[l].pc = "idle"

SeqSend ==
    /\ AllIdle
    /\ \E l \in Listeners : \E m \in Typed : UserInput(l, m, MaxUISends)
    /\ UNCHANGED <<ghostVars>>

SeqClear == AllIdle /\ Clear /\ UNCHANGED <<ghostVars>>

NextSeq ==
    \/ SeqSend
    \/ UIStart
    \/ UIProbe
    \/ UIPost
    \/ UILine
    \/ SeqClear

SpecSeq == Init /\ [][NextSeq]_vars

Alternates(conv) ==
    \A i \in 1..Len(conv) : conv[i].role = IF i % 2 = 1 THEN "user" ELSE "assistant"

\* the message a running bot_response asks the model to answer is a user turn
AnswersUserTurn(l) ==
    relay[l].pc = "streaming" =>
        relay[l].history[Len(relay[l].history) - 1].role = "user"

\* C13: from an empty conversation, after any sequence of sends run to
\* completion and of clears, the conversation alternates user, assistant,
\* user, assistant, ...; a send of an empty or blank message leaves the
\* conversation as it is, appends no assistant placeholder and opens no
\* generation request, so a placeholder is only ever appended after, and a
\* generation only ever opened for, the user turn that a send appended.
C13_AlternatingTurns ==
    /\ AllIdle => Alternates(chatbot)
    /\ \A l \in Listeners : AnswersUserTurn(l)

-----------------------------------------------------------------------------
(* SpecSession: the user changes the settings, picks files and imports
   them; the import event acts on the live conversation and settings *)

\* the user picks a model and moves the two sliders
PickSettings ==
    \E p \in ParamSets :
        /\ settings' = [model |-> p.model[1], temperature |-> p.temperature,
                        max_tokens |-> p.max_tokens]
        /\ settings' # settings
        /\ UNCHANGED <<chatbot, msg, relay, crashed, sends, reads, ghostVars, storeVars,
                       cmpVars, assembly, tags>>

SessionSettings == PickSettings /\ before' = [before EXCEPT !.event = "settings"]

SessionUpload == PickFile /\ before' = [before EXCEPT !.event = "upload"]

SessionImport == ImportClick /\ before' = Live("import", chatbot, settings)

NextSession ==
    \/ SessionSettings
    \/ SessionUpload
    \/ SessionImport

SpecSession == Init /\ [][NextSession]_vars

\* the step is an import event
ImportEvent == before'.event = "import"

\* the file an import of the path reads, and its text as JSON
FileAt(path) == IF path = NoPath THEN Missing ELSE disk[path]
LoadedFrom(file) == IF file.exists /\ file.readable THEN json_load(file.text) ELSE ParseFail

\* the ways an import fails that the claim names: no file, a file that
\* cannot be read or is not JSON, a JSON object without one of the three keys
FailingFile(path, file, loaded) ==
    \/ path = NoPath
    \/ ~(file.exists /\ file.readable)
    \/ ~loaded.ok
    \/ loaded.v.t = "obj" /\ \E key \in RequiredKeys : ~HasKey(loaded.v, key)

\* C14: whatever the live conversation and settings before it, an import
\* event that fails (no file, a file that cannot be read or is not JSON, a
\* missing top-level key, or any other failure status) sets the live
\* conversation to empty, the model to "", the temperature to 0.7 and
\* max_tokens to 2048; one that succeeds sets the live conversation, the
\* model, the temperature and max_tokens to the values of the file (0.7 and
\* 2048 for a parameter the file does not give); no other output of any
\* event changes.
C14_ImportSetsLiveSession ==
    [][ImportEvent =>
        \A file \in {FileAt(storeOut'.path)} : \A loaded \in {LoadedFrom(file)} :
            /\ FailingFile(storeOut'.path, file, loaded) => IsFailure(storeOut'.status)
            /\ IsFailure(storeOut'.status) =>
                  /\ chatbot' = <<>>
                  /\ settings' = [model |-> "", temperature |-> DefaultTemperature,
                                  max_tokens |-> DefaultMaxTokens]
            /\ ~IsFailure(storeOut'.status) =>
                  \A params \in {Get(loaded.v, K_parameters)} :
                      /\ chatbot' = LiveConversation(Get(loaded.v, K_conversation))
                      /\ settings'.model = LiveModel(Get(loaded.v, K_model))
                      /\ settings'.temperature =
                            IF HasKey(params, K_temperature)
                            THEN LiveTemperature(Get(params, K_temperature))
                            ELSE DefaultTemperature
                      /\ settings'.max_tokens =
                            IF HasKey(params, K_max_tokens)
                            THEN LiveMaxTokens(Get(params, K_max_tokens))
                            ELSE DefaultMaxTokens
            /\ UNCHANGED <<msg, relay, crashed, disk, cmp, cmpOut>>]_vars

\* a failing import has emptied a conversation of one message and reset
\* settings that the import before it had taken from a file
C14_Witness ==
    /\ before.event = "import"
    /\ IsFailure(storeOut.status)
    /\ before.chatbot = <<Message("user", <<"h", "i">>)>>
    /\ before.settings = [model |-> "m", temperature |-> 5, max_tokens |-> 300]
    /\ chatbot = <<>>
    /\ settings = [model |-> "", temperature |-> DefaultTemperature,
                   max_tokens |-> DefaultMaxTokens]

=============================================================================
